---- MODULE Spec2Model ----
(***************************************************************************)
(* Model of custom_components/xiaomi_miio_airpurifier/airpurifier_miot.py: *)
(* the ZA1 property map, the command set of BasicAirPurifierMiot and       *)
(* AirPurifierZA1, status() and the typed accessors of the status view.    *)
(*                                                                         *)
(* Python values are records [t, v]: t is the Python type, v an integer    *)
(* (bool: 0/1, float: hundredths, str: an index, enum member: its code).   *)
(***************************************************************************)
EXTENDS Integers, Sequences, FiniteSets

VARIABLES cmd, netok, calls, sent, err, total, resp, data, acc

vars == <<cmd, netok, calls, sent, err, total, resp, data, acc>>

cmdVars == <<cmd, netok, calls, sent, err, total>>

(* ------------------------------ bounds -------------------------------- *)

\* rpm inputs range over RpmMin - RpmSlack .. RpmMax + RpmSlack
RpmSlack == 20

\* favorite-level inputs range over FavLevelMin - LevelSlack .. FavLevelMax + LevelSlack
LevelSlack == 3

\* raw enumeration codes reported by the device range over -1 .. MaxRaw
MaxRaw == 9

\* property-set calls observed in one session
MaxCalls == 3

(* -------------------------- program constants ------------------------- *)

RpmMin == 300

RpmMax == 2300

RpmStep == 10

FavLevelMin == 0

FavLevelMax == 14

(* --------------------------- Python values ---------------------------- *)

PyNone == [t |-> "None", v |-> 0]

PyInt(i) == [t |-> "int", v |-> i]

PyBool(b) == [t |-> "bool", v |-> IF b THEN 1 ELSE 0]

\* a float, held in hundredths
PyFloat(h) == [t |-> "float", v |-> h]

\* a string, held as an index ("off" = 0, "on" = 1 for the power accessor)
PyStr(i) == [t |-> "str", v |-> i]

Ret(x) == [k |-> "return", val |-> x, exc |-> "none"]

Raise(e) == [k |-> "raise", val |-> PyNone, exc |-> e]

\* bool(x)
Truthy(x) == IF x.t = "None" THEN FALSE
             ELSE IF x.t \in {"int", "bool", "float"} THEN x.v # 0
             ELSE TRUE

(* ---------------------------- property map ---------------------------- *)

_MODEL_AIRPURIFIER_ZA1 ==
  << [did |-> "power",                  siid |-> 2,  piid |-> 1],
     [did |-> "mode",                   siid |-> 2,  piid |-> 5],
     [did |-> "tvoc",                   siid |-> 3,  piid |-> 1],
     [did |-> "pm25",                   siid |-> 3,  piid |-> 6],
     [did |-> "humidity",               siid |-> 3,  piid |-> 7],
     [did |-> "temperature",            siid |-> 3,  piid |-> 8],
     [did |-> "filter_life_remaining",  siid |-> 4,  piid |-> 3],
     [did |-> "filter_hours_used",      siid |-> 4,  piid |-> 5],
     [did |-> "buzzer",                 siid |-> 5,  piid |-> 1],
     [did |-> "led_brightness",         siid |-> 6,  piid |-> 1],
     [did |-> "child_lock",             siid |-> 7,  piid |-> 1],
     [did |-> "favorite_level",         siid |-> 10, piid |-> 10],
     [did |-> "motor_speed",            siid |-> 10, piid |-> 11],
     [did |-> "use_time",               siid |-> 12, piid |-> 1],
     [did |-> "purify_volume",          siid |-> 13, piid |-> 1],
     [did |-> "average_aqi",            siid |-> 13, piid |-> 2],
     [did |-> "filter_rfid_tag",        siid |-> 14, piid |-> 1],
     [did |-> "filter_rfid_product_id", siid |-> 14, piid |-> 3],
     [did |-> "gesture_status",         siid |-> 15, piid |-> 13] >>

\* AirPurifierZA1.mapping
mapping == _MODEL_AIRPURIFIER_ZA1

MappingKeys == {mapping[i].did : i \in 1..Len(mapping)}

Address(name) == LET i == CHOOSE j \in 1..Len(mapping) : mapping[j].did = name
                 IN  [siid |-> mapping[i].siid, piid |-> mapping[i].piid]

(* ---------------------------- enumerations ---------------------------- *)

\* class OperationMode(enum.Enum), in declaration order
OperationModeEnum ==
  << [name |-> "Auto",     value |-> 0],
     [name |-> "Silent",   value |-> 1],
     [name |-> "Favorite", value |-> 2],
     [name |-> "Fan",      value |-> 3] >>

\* class LedBrightness(enum.Enum), in declaration order
LedBrightnessEnum ==
  << [name |-> "Bright", value |-> 0],
     [name |-> "Dim",    value |-> 1],
     [name |-> "Off",    value |-> 2] >>

\* a member is held as its position in the declaration, not as its value
EnumOf(t) == IF t = "OperationMode" THEN OperationModeEnum ELSE LedBrightnessEnum

Member(t, name) ==
  [t |-> t, v |-> CHOOSE i \in 1..Len(EnumOf(t)) : EnumOf(t)[i].name = name]

OperationModes == {[t |-> "OperationMode", v |-> i] : i \in 1..Len(OperationModeEnum)}

LedBrightnesses == {[t |-> "LedBrightness", v |-> i] : i \in 1..Len(LedBrightnessEnum)}

\* the number a raw value compares equal to, for the by-value lookup of Enum
IsNumber(x) == \/ x.t \in {"int", "bool"}
               \/ x.t = "float" /\ x.v % 100 = 0

NumberOf(x) == IF x.t = "float" THEN x.v \div 100 ELSE x.v

\* Enum.__call__: t(raw), the member whose value equals raw
EnumCall(t, raw) ==
  IF raw.t = t THEN Ret(raw)
  ELSE IF IsNumber(raw) /\ \E i \in 1..Len(EnumOf(t)) : EnumOf(t)[i].value = NumberOf(raw)
       THEN Ret([t |-> t,
                 v |-> CHOOSE i \in 1..Len(EnumOf(t)) : EnumOf(t)[i].value = NumberOf(raw)])
       ELSE Raise("ValueError")

\* OperationMode(raw)
OperationMode(raw) == EnumCall("OperationMode", raw)

\* LedBrightness(raw)
LedBrightness(raw) == EnumCall("LedBrightness", raw)

\* x.value
ValueAttr(x) == IF x.t \in {"OperationMode", "LedBrightness"}
                THEN Ret(PyInt(EnumOf(x.t)[x.v].value))
                ELSE Raise("AttributeError")

(* ----------------------- external device client ----------------------- *)

\* MiotDevice.set_property(property_key, value): resolves the key through the
\* mapping and performs one network exchange; ok says whether the exchange
\* succeeds.  calls records the invocation of the primitive itself.
set_property(property_key, value, ok) ==
  LET call == [did |-> property_key, value |-> value]
  IN  IF property_key \notin MappingKeys
      THEN [calls |-> <<call>>, sent |-> <<>>, err |-> "KeyError"]
      ELSE LET msg == [did |-> property_key,
                       siid |-> Address(property_key).siid,
                       piid |-> Address(property_key).piid,
                       value |-> value]
           IN  [calls |-> <<call>>, sent |-> <<msg>>,
                err |-> IF ok THEN "none" ELSE "DeviceException"]

\* a command that raises before it reaches the write primitive
Raised(e) == [calls |-> <<>>, sent |-> <<>>, err |-> e]

(* ------------------------------ commands ------------------------------ *)

on(ok) == set_property("power", PyBool(TRUE), ok)

off(ok) == set_property("power", PyBool(FALSE), ok)

\* set_favorite_rpm without the step test
set_favorite_rpm_NoStep(rpm, ok) ==
  IF rpm < RpmMin \/ rpm > RpmMax
  THEN Raised("AirPurifierMiotException")
  ELSE set_property("favorite_rpm", PyInt(rpm), ok)

set_favorite_rpm(rpm, ok) ==
  IF rpm < RpmMin \/ rpm > RpmMax \/ rpm % RpmStep # 0
  THEN Raised("AirPurifierMiotException")
  ELSE set_property("favorite_rpm", PyInt(rpm), ok)

\* set_mode passing the member instead of its value
set_mode_NoValue(mode, ok) ==
  LET v == ValueAttr(mode)
  IN  IF v.k = "raise" THEN Raised(v.exc)
      ELSE set_property("mode", mode, ok)

set_mode(mode, ok) ==
  LET v == ValueAttr(mode)
  IN  IF v.k = "raise" THEN Raised(v.exc)
      ELSE set_property("mode", v.val, ok)

\* set_buzzer repeating the write once when the exchange fails
set_buzzer_Retry(buzzer, ok) ==
  LET r == set_property("buzzer", buzzer, ok)
  IN  IF r.err = "DeviceException"
      THEN [calls |-> r.calls \o r.calls, sent |-> r.sent \o r.sent, err |-> r.err]
      ELSE r

set_buzzer(buzzer, ok) == set_property("buzzer", buzzer, ok)

set_child_lock(lock, ok) == set_property("child_lock", lock, ok)

set_gesture(gesture, ok) == set_property("gesture", gesture, ok)

\* set_favorite_level with the upper limit off by one
set_favorite_level_OffByOne(level, ok) ==
  IF level < FavLevelMin \/ level > FavLevelMax + 1
  THEN Raised("AirPurifierMiotException")
  ELSE set_property("favorite_level", PyInt(level), ok)

set_favorite_level(level, ok) ==
  IF level < FavLevelMin \/ level > FavLevelMax
  THEN Raised("AirPurifierMiotException")
  ELSE set_property("favorite_level", PyInt(level), ok)

set_led_brightness(brightness, ok) ==
  LET v == ValueAttr(brightness)
  IN  IF v.k = "raise" THEN Raised(v.exc)
      ELSE set_property("led_brightness", v.val, ok)

(* ------------------------------- state -------------------------------- *)

NoCmd == [op |-> "none", arg |-> PyNone]

NoData == [n \in {} |-> PyNone]

NoAcc == [name |-> "none", out |-> Ret(PyNone)]

Init ==
  /\ cmd = NoCmd
  /\ netok = TRUE
  /\ calls = <<>>
  /\ sent = <<>>
  /\ err = "none"
  /\ total = 0
  /\ resp = <<>>
  /\ data = NoData
  /\ acc = NoAcc

\* one invocation of a command: r is what the command did
Invoke(op, arg, ok, r) ==
  /\ total < MaxCalls
  /\ cmd' = [op |-> op, arg |-> arg]
  /\ netok' = ok
  /\ calls' = r.calls
  /\ sent' = r.sent
  /\ err' = r.err
  /\ total' = total + Len(r.calls)
  /\ UNCHANGED <<resp, data, acc>>

(* ------------------------------ inputs -------------------------------- *)

\* every multiple and half-multiple of the step across the range, and every
\* integer within RpmSlack of either end of the range
RpmInputs ==
  {r \in (RpmMin - RpmSlack)..(RpmMax + RpmSlack) :
     \/ (2 * r) % RpmStep = 0
     \/ r <= RpmMin + RpmSlack
     \/ r >= RpmMax - RpmSlack}

LevelInputs == (FavLevelMin - LevelSlack)..(FavLevelMax + LevelSlack)

BoolInputs == {PyBool(TRUE), PyBool(FALSE)}

\* what a caller can pass where an enumeration member is expected
EnumInputs == OperationModes \cup LedBrightnesses
                \cup {PyInt(2), PyInt(MaxRaw), PyNone, PyBool(TRUE)}

(* --------------------------- command actions -------------------------- *)

On == \E ok \in BOOLEAN : Invoke("on", PyNone, ok, on(ok))

Off == \E ok \in BOOLEAN : Invoke("off", PyNone, ok, off(ok))

SetFavoriteRpm ==
  \E rpm \in RpmInputs, ok \in BOOLEAN :
    Invoke("set_favorite_rpm", PyInt(rpm), ok, set_favorite_rpm(rpm, ok))

SetMode ==
  \E mode \in EnumInputs, ok \in BOOLEAN :
    Invoke("set_mode", mode, ok, set_mode(mode, ok))

SetBuzzer ==
  \E buzzer \in BoolInputs, ok \in BOOLEAN :
    Invoke("set_buzzer", buzzer, ok, set_buzzer(buzzer, ok))

SetChildLock ==
  \E lock \in BoolInputs, ok \in BOOLEAN :
    Invoke("set_child_lock", lock, ok, set_child_lock(lock, ok))

SetGesture ==
  \E gesture \in BoolInputs, ok \in BOOLEAN :
    Invoke("set_gesture", gesture, ok, set_gesture(gesture, ok))

SetFavoriteLevel ==
  \E level \in LevelInputs, ok \in BOOLEAN :
    Invoke("set_favorite_level", PyInt(level), ok, set_favorite_level(level, ok))

SetLedBrightness ==
  \E brightness \in EnumInputs, ok \in BOOLEAN :
    Invoke("set_led_brightness", brightness, ok, set_led_brightness(brightness, ok))

NextCmd ==
  \/ On
  \/ Off
  \/ SetFavoriteRpm
  \/ SetMode
  \/ SetBuzzer
  \/ SetChildLock
  \/ SetGesture
  \/ SetFavoriteLevel
  \/ SetLedBrightness

SpecCmd == Init /\ [][NextCmd]_vars

(* ------------------------------ bulk read ----------------------------- *)

\* codes a device reports for a property it could not read
ErrCodes == {-4001, 1}

\* MiotDevice.get_properties_for_mapping(): one entry per entry of the
\* mapping, in its order; an entry of a property in failed carries an error
\* code (and whatever value the device put next to it).
get_properties_for_mapping(failed, code, vals) ==
  [i \in 1..Len(mapping) |->
     [did   |-> mapping[i].did,
      siid  |-> mapping[i].siid,
      piid  |-> mapping[i].piid,
      code  |-> IF mapping[i].did \in failed THEN code ELSE 0,
      value |-> vals[mapping[i].did]]]

\* the values a device reports: profile p, raw mode m, raw brightness l
DeviceValues(p, m, l) ==
  [n \in MappingKeys |->
     CASE n = "power"                  -> PyBool(p = 1)
       [] n = "mode"                   -> m
       [] n = "tvoc"                   -> PyInt(p)
       [] n = "pm25"                   -> PyInt(10 * p)
       [] n = "humidity"               -> PyInt(40 + p)
       [] n = "temperature"            -> PyFloat(2141 + 3 * p)
       [] n = "filter_life_remaining"  -> PyInt(98 - p)
       [] n = "filter_hours_used"      -> PyInt(100 * p)
       [] n = "buzzer"                 -> PyBool(p # 1)
       [] n = "led_brightness"         -> l
       [] n = "child_lock"             -> PyBool(p = 1)
       [] n = "favorite_level"         -> PyInt(p)
       [] n = "motor_speed"            -> PyInt(390 + p)
       [] n = "use_time"               -> PyInt(3600 * p)
       [] n = "purify_volume"          -> PyInt(20 * p)
       [] n = "average_aqi"            -> PyInt(5 + p)
       [] n = "filter_rfid_tag"        -> PyStr(p)
       [] n = "filter_rfid_product_id" -> PyStr(10 + p)
       [] n = "gesture_status"         -> PyBool(p # 1)]

\* {prop["did"]: prop["value"] if prop["code"] == 0 else None for prop in props}:
\* the entries are taken in order, a later entry of the same did replaces an
\* earlier one
RECURSIVE DictOf(_, _, _)
DictOf(props, i, d) ==
  IF i > Len(props) THEN d
  ELSE LET prop == props[i]
           x    == IF prop.code = 0 THEN prop.value ELSE PyNone
       IN  DictOf(props, i + 1,
                  [n \in DOMAIN d \cup {prop.did} |->
                     IF n = prop.did THEN x ELSE d[n]])

\* status() taking the value whatever the result code
status_IgnoresCode(props) ==
  [n \in {props[i].did : i \in 1..Len(props)} |->
     props[CHOOSE i \in 1..Len(props) : props[i].did = n].value]

\* AirPurifierZA1.status(), given what the bulk read returned
status(props) == DictOf(props, 1, [n \in {} |-> PyNone])

(* ------------------------------ accessors ----------------------------- *)

\* d[key]
Item(d, key) == IF key \in DOMAIN d THEN Ret(d[key]) ELSE Raise("KeyError")

\* d.get(key)
Get(d, key) == IF key \in DOMAIN d THEN Ret(d[key]) ELSE Ret(PyNone)

\* round(x, 1)
Round1(x) ==
  IF x.t \in {"int", "bool"} THEN Ret(PyInt(x.v))
  ELSE IF x.t = "float"
       THEN LET r == x.v % 10
            IN  Ret(PyFloat(IF r < 5 THEN x.v - r
                            ELSE IF r > 5 THEN x.v - r + 10
                            ELSE IF ((x.v - r) \div 10) % 2 = 0 THEN x.v - r
                            ELSE x.v - r + 10))
       ELSE Raise("TypeError")

is_on(d) == Item(d, "power")

power(d) ==
  LET r == is_on(d)
  IN  IF r.k = "raise" THEN r
      ELSE Ret(PyStr(IF Truthy(r.val) THEN 1 ELSE 0))

tvoc(d) == Item(d, "tvoc")

mode(d) ==
  LET r == Item(d, "mode")
  IN  IF r.k = "raise" THEN r ELSE OperationMode(r.val)

buzzer(d) ==
  LET r == Item(d, "buzzer")
  IN  IF r.k = "raise" THEN r
      ELSE IF r.val # PyNone THEN Item(d, "buzzer")
      ELSE Ret(PyNone)

child_lock(d) == Item(d, "child_lock")

filter_life_remaining(d) == Item(d, "filter_life_remaining")

filter_hours_used(d) == Item(d, "filter_hours_used")

motor_speed(d) == Item(d, "motor_speed")

favorite_rpm(d) == Get(d, "favorite_rpm")

average_aqi(d) == Item(d, "average_aqi")

humidity(d) == Item(d, "humidity")

temperature(d) ==
  LET r == Item(d, "temperature")
  IN  IF r.k = "raise" THEN r
      ELSE IF r.val # PyNone THEN Round1(r.val)
      ELSE Ret(PyNone)

\* led_brightness without the except clause
led_brightness_NoCatch(d) ==
  LET r == Item(d, "led_brightness")
  IN  IF r.k = "raise" THEN r
      ELSE IF r.val # PyNone THEN LedBrightness(r.val)
      ELSE Ret(PyNone)

led_brightness(d) ==
  LET r == Item(d, "led_brightness")
  IN  IF r.k = "raise" THEN r
      ELSE IF r.val # PyNone
           THEN LET e == LedBrightness(r.val)
                IN  IF e.k = "raise" /\ e.exc = "ValueError" THEN Ret(PyNone)
                    ELSE e
           ELSE Ret(PyNone)

favorite_level(d) == Item(d, "favorite_level")

use_time(d) == Item(d, "use_time")

purify_volume(d) == Item(d, "purify_volume")

filter_rfid_product_id(d) == Item(d, "filter_rfid_product_id")

filter_rfid_tag(d) == Item(d, "filter_rfid_tag")

pm25(d) == Item(d, "pm25")

gesture_status(d) == Item(d, "gesture_status")

\* accessor name -> the key of the bag it reads
AccessorKey ==
  [is_on |-> "power", power |-> "power", tvoc |-> "tvoc", mode |-> "mode",
   buzzer |-> "buzzer", child_lock |-> "child_lock",
   filter_life_remaining |-> "filter_life_remaining",
   filter_hours_used |-> "filter_hours_used", motor_speed |-> "motor_speed",
   favorite_rpm |-> "favorite_rpm", average_aqi |-> "average_aqi",
   humidity |-> "humidity", temperature |-> "temperature",
   led_brightness |-> "led_brightness", favorite_level |-> "favorite_level",
   use_time |-> "use_time", purify_volume |-> "purify_volume",
   filter_rfid_product_id |-> "filter_rfid_product_id",
   filter_rfid_tag |-> "filter_rfid_tag", pm25 |-> "pm25",
   gesture_status |-> "gesture_status"]

AccessorNames == DOMAIN AccessorKey

\* getattr(view, name)
Accessor(name, d) ==
  CASE name = "is_on"                  -> is_on(d)
    [] name = "power"                  -> power(d)
    [] name = "tvoc"                   -> tvoc(d)
    [] name = "mode"                   -> mode(d)
    [] name = "buzzer"                 -> buzzer(d)
    [] name = "child_lock"             -> child_lock(d)
    [] name = "filter_life_remaining"  -> filter_life_remaining(d)
    [] name = "filter_hours_used"      -> filter_hours_used(d)
    [] name = "motor_speed"            -> motor_speed(d)
    [] name = "favorite_rpm"           -> favorite_rpm(d)
    [] name = "average_aqi"            -> average_aqi(d)
    [] name = "humidity"               -> humidity(d)
    [] name = "temperature"            -> temperature(d)
    [] name = "led_brightness"         -> led_brightness(d)
    [] name = "favorite_level"         -> favorite_level(d)
    [] name = "use_time"               -> use_time(d)
    [] name = "purify_volume"          -> purify_volume(d)
    [] name = "filter_rfid_product_id" -> filter_rfid_product_id(d)
    [] name = "filter_rfid_tag"        -> filter_rfid_tag(d)
    [] name = "pm25"                   -> pm25(d)
    [] name = "gesture_status"         -> gesture_status(d)

(* --------------------------- status actions --------------------------- *)

RawInputs == {PyInt(i) : i \in (-1)..MaxRaw}

\* the properties a bulk read fails on: any one, or all of them
FailPatterns == {{n} : n \in MappingKeys} \cup {MappingKeys}

\* what a device answers to a bulk read: either every property is read or
\* some fail with an error code.  mode and led_brightness are decoded
\* independently of each other, so one raw code r is reported for both.
Scenarios ==
  {[failed |-> {}, code |-> 0, r |-> r, p |-> 1] : r \in RawInputs}
  \cup
  {[failed |-> f, code |-> c, r |-> r, p |-> 2] :
     f \in FailPatterns, c \in ErrCodes, r \in {PyInt(1), PyInt(MaxRaw)}}

\* status() against a device drawn from the given scenarios
StatusOf(scenarios) ==
  \E s \in scenarios :
    LET props == get_properties_for_mapping(s.failed, s.code,
                                            DeviceValues(s.p, s.r, s.r))
    IN  /\ resp' = props
        /\ data' = status(props)
        /\ acc' = NoAcc
        /\ UNCHANGED cmdVars

Status == StatusOf(Scenarios)

\* the caller evaluates one accessor of the view it holds
Read ==
  /\ DOMAIN data # {}
  /\ \E name \in AccessorNames :
       acc' = [name |-> name, out |-> Accessor(name, data)]
  /\ UNCHANGED <<resp, data>>
  /\ UNCHANGED cmdVars

NextStatus == Status \/ Read

SpecStatus == Init /\ [][NextStatus]_vars

(* -------------------- write a mode, then read it back ------------------ *)

StatusMode ==
  StatusOf({s \in Scenarios : s.failed \in {{}, {"mode"}}})

ReadMode ==
  /\ DOMAIN data # {}
  /\ acc' = [name |-> "mode", out |-> Accessor("mode", data)]
  /\ UNCHANGED <<resp, data>>
  /\ UNCHANGED cmdVars

NextRound == SetMode \/ StatusMode \/ ReadMode

SpecRound == Init /\ [][NextRound]_vars

(* ------------------------------- claims ------------------------------- *)

\* the call a command is expected to delegate
TheCall(name, value) == <<[did |-> name, value |-> value]>>

\* the argument has the type the command declares
WellTyped(c) ==
  CASE c.op = "set_mode"           -> c.arg \in OperationModes
    [] c.op = "set_led_brightness" -> c.arg \in LedBrightnesses
    [] OTHER                       -> TRUE

\* C1: set_favorite_rpm(rpm) with 300 <= rpm <= 2300 and rpm a multiple of 10
\* delegates exactly one property-set call ("favorite_rpm", rpm), the client
\* resolves the name through the ZA1 map, and no error is raised (unless the
\* network exchange itself fails).
C1_FavoriteRpmSucceeds ==
  (cmd.op = "set_favorite_rpm" /\ cmd.arg.v \in 300..2300 /\ cmd.arg.v % 10 = 0)
    => /\ calls = TheCall("favorite_rpm", cmd.arg)
       /\ Len(sent) = 1
       /\ netok => err = "none"

\* C2: set_favorite_rpm(rpm) with rpm below 300, above 2300 or not a multiple
\* of 10 raises AirPurifierMiotException and makes no property-set call.
C2_InvalidRpmRaises ==
  (cmd.op = "set_favorite_rpm"
     /\ (cmd.arg.v < 300 \/ cmd.arg.v > 2300 \/ cmd.arg.v % 10 # 0))
    => /\ err = "AirPurifierMiotException"
       /\ calls = <<>>
       /\ sent = <<>>

C2_Witness ==
  /\ cmd = [op |-> "set_favorite_rpm", arg |-> PyInt(305)]
  /\ err = "AirPurifierMiotException"
  /\ calls = <<>>

\* C3: set_favorite_level(level) accepts exactly 0..14: inside the range it
\* delegates the one call ("favorite_level", level) and raises no validation
\* error; outside it raises AirPurifierMiotException and makes no call.
C3_FavoriteLevelRange ==
  cmd.op = "set_favorite_level"
    => IF cmd.arg.v \in 0..14
       THEN /\ calls = TheCall("favorite_level", cmd.arg)
            /\ err # "AirPurifierMiotException"
            /\ netok => err = "none" /\ Len(sent) = 1
       ELSE /\ err = "AirPurifierMiotException"
            /\ calls = <<>>
            /\ sent = <<>>

C3_Witness ==
  /\ cmd = [op |-> "set_favorite_level", arg |-> PyInt(14)]
  /\ calls = TheCall("favorite_level", PyInt(14))
  /\ err = "none"

\* C4: set_mode or set_led_brightness with a value that is not a member of its
\* enumeration raises AirPurifierMiotException before any network interaction
\* and makes no property-set call.
C4_NonMemberRejected ==
  (\/ cmd.op = "set_mode" /\ cmd.arg \notin OperationModes
   \/ cmd.op = "set_led_brightness" /\ cmd.arg \notin LedBrightnesses)
    => /\ err = "AirPurifierMiotException"
       /\ calls = <<>>
       /\ sent = <<>>

\* C5: set_mode(m) for a member m of OperationMode writes the integer code of
\* m (a code in 0..3, 2 for Favorite); the mode accessor on a bag holding the
\* written code yields m again; on a raw integer outside 0..3 the mode
\* accessor raises the decode error.
C5_ModeRoundTrip ==
  /\ (cmd.op = "set_mode" /\ cmd.arg \in OperationModes)
       => /\ Len(calls) = 1
          /\ calls[1].did = "mode"
          /\ calls[1].value.t = "int"
          /\ calls[1].value.v \in 0..3
          /\ cmd.arg = Member("OperationMode", "Favorite") => calls[1].value = PyInt(2)
          /\ (acc.name = "mode" /\ data["mode"] = calls[1].value)
               => acc.out = Ret(cmd.arg)
  /\ (acc.name = "mode" /\ data["mode"].t = "int" /\ data["mode"].v \notin 0..3)
       => acc.out = Raise("ValueError")

C5_Witness ==
  /\ cmd = [op |-> "set_mode", arg |-> Member("OperationMode", "Favorite")]
  /\ calls = TheCall("mode", PyInt(2))
  /\ acc = [name |-> "mode", out |-> Ret(Member("OperationMode", "Favorite"))]
  /\ data["mode"] = PyInt(2)

\* C6: on a bag that has the led_brightness key the led_brightness accessor
\* never raises: raw 0, 1, 2 yield Bright, Dim, Off, every other raw integer
\* and an absent value yield None.
C6_LedBrightnessTotal ==
  (acc.name = "led_brightness" /\ "led_brightness" \in DOMAIN data)
    => LET raw == data["led_brightness"]
       IN  /\ acc.out.k = "return"
           /\ raw = PyInt(0) => acc.out.val = Member("LedBrightness", "Bright")
           /\ raw = PyInt(1) => acc.out.val = Member("LedBrightness", "Dim")
           /\ raw = PyInt(2) => acc.out.val = Member("LedBrightness", "Off")
           /\ (raw = PyNone \/ (raw.t = "int" /\ raw.v \notin 0..2))
                => acc.out.val = PyNone

C6_Witness ==
  /\ acc = [name |-> "led_brightness", out |-> Ret(PyNone)]
  /\ data["led_brightness"] = PyInt(5)

\* C7: the bag built by status() has exactly the names the bulk read returned
\* (one per entry of the property map) as keys; each maps to the reported
\* value when the result code is 0 and to None otherwise.
C7_StatusBag ==
  Len(resp) > 0
    => /\ DOMAIN data = {resp[i].did : i \in 1..Len(resp)}
       /\ DOMAIN data = MappingKeys
       /\ Cardinality(DOMAIN data) = Len(resp)
       /\ \A i \in 1..Len(resp) :
            data[resp[i].did] = IF resp[i].code = 0 THEN resp[i].value ELSE PyNone

C7_Witness ==
  /\ Len(resp) > 0
  /\ \E i, j \in 1..Len(resp) :
       /\ resp[i].code > 0 /\ resp[i].value # PyNone /\ data[resp[i].did] = PyNone
       /\ resp[j].code = 0 /\ data[resp[j].did] = resp[j].value

C9_WrittenNamesMapped ==
  \A i \in 1..Len(calls) : calls[i].did \in MappingKeys

\* C10: on a bag produced by status() no accessor raises for an absent value,
\* each returns None instead; only mode can raise, and only when its raw value
\* is present and outside 0..3.
C10_AbsentNeverRaises ==
  acc.name # "none"
    => LET key == AccessorKey[acc.name]
       IN  /\ (key \in DOMAIN data /\ data[key] = PyNone) => acc.out = Ret(PyNone)
           /\ acc.out.k = "raise"
                => /\ acc.name = "mode"
                   /\ data["mode"].t = "int"
                   /\ data["mode"].v \notin 0..3

====
